---- MODULE Spec2Model ----
(***************************************************************************)
(* Model of currency-updater (src/main.py): CurrencyParser (rate chain and *)
(* one-hour cache over the Belarusbank API) and NotionUpdater (extraction  *)
(* of a currency code per record, rate lookup, write-back), driven by the  *)
(* scheduling loop of main().                                              *)
(*                                                                         *)
(* Conventions.  A Python str is a tuple of one-character strings, so that *)
(* upper() and strip() are computed.  A rate is an integer in units of     *)
(* 10^-5 (3.14159 is 314159).  Clock readings are whole seconds.           *)
(***************************************************************************)
EXTENDS Integers, Sequences, FiniteSets, TLC

VARIABLES
    rates_cache,      \* CurrencyParser.rates_cache: code -> rate
    cache_timestamp,  \* CurrencyParser.cache_timestamp: None or a clock reading
    now,              \* the clock read by time.time()
    ticks,            \* how many times the clock has been advanced (bounded)
    last,             \* the most recent call of the parser, as observed
    hist,             \* the _get_belarusbank_rate calls made so far
    pc,               \* where main() stands
    cycles,           \* how many times main() has called process_database
    all_pages,        \* get_database_entries: the records read so far
    has_more,         \* get_database_entries: whether another page is due
    next_cursor,      \* get_database_entries: the cursor of the next page
    fetched,          \* the page requests of the running read, as observed
    pages,            \* process_database: the records being processed
    idx,              \* process_database: the position of the next record
    updated_count,    \* process_database: its three counters
    error_count,
    skipped_count,
    fresh_at_start,   \* whether the cache was fresh when the call began
    log               \* what happened to each record visited in this call

\* ------------------------------------------------------------------ bounds

\* The clock reading at start-up (time.time() is positive).
T0 == 1000
\* How many times the clock may advance.
MaxTicks == 2
\* How many cache lookups the parser driver records.
MaxLookups == 3
\* How many records the document store returns for one cycle.
MaxRecords == 2
\* How many cycles of the scheduling loop are followed.
MaxCycles == 2
\* How many page requests one read of the store is followed for.
MaxFetches == 2

\* ------------------------------------------------------- Python's values

\* None where a number (a rate, a timestamp, a count) is expected.
None == -1
\* None where a str is expected; as falsy as the empty str it is modelled by.
NoCode == <<>>
\* A missing or null next_cursor, which line 207 treats like an empty one.
NoCursor == <<>>

LowerCase == <<"a","b","c","d","e","f","g","h","i","j","k","l","m",
               "n","o","p","q","r","s","t","u","v","w","x","y","z">>
UpperCase == <<"A","B","C","D","E","F","G","H","I","J","K","L","M",
               "N","O","P","Q","R","S","T","U","V","W","X","Y","Z">>

\* The upper-case letter of each lower-case letter.
UpperMap ==
    [c \in {LowerCase[i] : i \in DOMAIN LowerCase} |->
        UpperCase[CHOOSE i \in DOMAIN LowerCase : LowerCase[i] = c]]

\* One character of str.upper().
UpperChar(c) == IF c \in DOMAIN UpperMap THEN UpperMap[c] ELSE c

\* str.upper()
upper(s) == [i \in 1..Len(s) |-> UpperChar(s[i])]

USD == <<"U","S","D">>
EUR == <<"E","U","R">>
RUB == <<"R","U","B">>
BYN == <<"B","Y","N">>
GBP == <<"G","B","P">>
CNY == <<"C","N","Y">>
PLN == <<"P","L","N">>
UAH == <<"U","A","H">>

\* ------------------------------------------------------- CurrencyParser

\* cache_valid_hours * 3600, the age beyond which the cache is refreshed.
cache_valid_hours == 1
SecondsPerHour == 3600
TTL == cache_valid_hours * SecondsPerHour

\* The rate of BYN itself, 1.0.
BYN_RATE == 100000

\* The hard-coded fallback table of get_exchange_rate.
fixed_rates ==
    (USD :> 290000) @@ (EUR :> 320000) @@ (RUB :> 3400) @@
    (GBP :> 400000) @@ (CNY :> 43000)

\* Our code -> the field of the bank's answer that carries its buy rate.
bank_field_mapping ==
    (USD :> "USD_in") @@ (EUR :> "EUR_in") @@ (RUB :> "RUB_in") @@
    (GBP :> "GBP_in") @@ (CNY :> "CNY_in") @@ (PLN :> "PLN_in") @@
    (UAH :> "UAH_in")

\* A value of one field of the bank's answer.
\*   "str"   a numeric string such as "3.2000" (what the bank sends)
\*   "num"   a JSON number other than 0
\*   "zero"  the JSON number 0 or 0.0
\*   "text"  a non-empty string that float() rejects (ValueError)
\*   "list"  a non-empty JSON array or object (float() raises TypeError)
\*   "falsy" "", null, [] or {}
FieldValue(t, v) == [t |-> t, v |-> v]

\* bool(value), the second half of the test of line 168.
Truthy(val) == val.t \notin {"falsy", "zero"}

\* Whether float(value) returns; it raises ValueError or TypeError otherwise.
FloatOk(val) == val.t \in {"str", "num", "zero"}

\* float(value): the number the field denotes, kept to all its digits.
Float(val) == val.v

\* The answers of the bank that the model draws from.
\* The scenario of the specification: USD 3.20 and EUR 3.45.
BankScenario ==
    ("USD_in" :> FieldValue("str", 320000)) @@
    ("EUR_in" :> FieldValue("str", 345000))
\* Five decimals, and one field of each tolerated malformation.
BankMixed ==
    ("USD_in" :> FieldValue("num", 314159)) @@
    ("EUR_in" :> FieldValue("text", 0)) @@
    ("RUB_in" :> FieldValue("falsy", 0)) @@
    ("GBP_in" :> FieldValue("list", 0)) @@
    ("CNY_in" :> FieldValue("zero", 0)) @@
    ("PLN_in" :> FieldValue("str", 95000))

\* What one GET of the bank's API comes to.
\*   "timeout"     requests.exceptions.Timeout
\*   "neterr"      another RequestException (connection, HTTP status)
\*   "badjson"     response.json() raises
\*   "notlist"     the body is empty or is not a JSON array
\*   "scalarlist"  an array whose first element is a number or null
\*   "strlist"     an array whose first element is a string
\*   "dictlist"    an array whose first element is an object, `data`
Outcome(kind, data) == [kind |-> kind, data |-> data]

ProviderOutcomes ==
    { Outcome(k, <<>>) :
        k \in {"timeout", "neterr", "badjson", "notlist", "scalarlist", "strlist"} }
    \cup { Outcome("dictlist", d) : d \in {BankScenario, BankMixed} }

\* Variant: the cache is refreshed as soon as its age reaches the validity
\* period (>= for >).
should_refresh_at_ttl(ts, t) ==
    IF ts = None \/ ts = 0
    THEN TRUE
    ELSE (t - ts) >= TTL

\* _should_refresh_cache
_should_refresh_cache(ts, t) ==
    IF ts = None \/ ts = 0
    THEN TRUE
    ELSE (t - ts) > TTL

\* The loop of lines 167-174 over an object: every recognised field that is
\* present, truthy and convertible.
ParsedRates(data) ==
    LET kept == { c \in DOMAIN bank_field_mapping :
                    /\ bank_field_mapping[c] \in DOMAIN data
                    /\ Truthy(data[bank_field_mapping[c]])
                    /\ FloatOk(data[bank_field_mapping[c]]) }
    IN  [c \in kept |-> Float(data[bank_field_mapping[c]])]

\* Variant: a refresh adds to the cache what the answer holds and keeps the
\* entries the answer does not mention.
refresh_merging(cache, ts, t, o) ==
    CASE o.kind \in {"timeout", "neterr", "badjson", "notlist"} ->
            [cache |-> cache, ts |-> ts]
      [] o.kind = "scalarlist" -> [cache |-> cache, ts |-> ts]
      [] o.kind = "strlist" -> [cache |-> cache, ts |-> t]
      [] OTHER -> [cache |-> ParsedRates(o.data) @@ cache, ts |-> t]

\* _refresh_belarusbank_cache: the cache and the timestamp it leaves.
_refresh_belarusbank_cache(cache, ts, t, o) ==
    CASE o.kind \in {"timeout", "neterr", "badjson"} ->
            \* raised at line 140, 141 or 143, before the cache is touched
            [cache |-> cache, ts |-> ts]
      [] o.kind = "notlist" ->
            \* line 145-147: return
            [cache |-> cache, ts |-> ts]
      [] o.kind = "scalarlist" ->
            \* line 150 has emptied the cache when `in` raises TypeError at
            \* line 168; the handler of line 183 swallows it, line 176 is skipped
            [cache |-> <<>>, ts |-> ts]
      [] o.kind = "strlist" ->
            \* `in` on a str finds no field; lines 150 and 176 both run
            [cache |-> <<>>, ts |-> t]
      [] OTHER ->
            [cache |-> ParsedRates(o.data), ts |-> t]

\* _get_belarusbank_rate: the rate (or None), the cache state it leaves and
\* the number of requests it sent.
_get_belarusbank_rate(code, cache, ts, t, o) ==
    LET need == _should_refresh_cache(ts, t)
        after == IF need THEN _refresh_belarusbank_cache(cache, ts, t, o)
                 ELSE [cache |-> cache, ts |-> ts]
    IN  [rate |-> IF code \in DOMAIN after.cache THEN after.cache[code] ELSE None,
         cache |-> after.cache,
         ts |-> after.ts,
         requests |-> IF need THEN 1 ELSE 0]

\* Variant: the code is compared as given, without upper().
get_exchange_rate_case_sensitive(currency_code, cache, ts, t, o) ==
    LET code == currency_code
        bank == _get_belarusbank_rate(code, cache, ts, t, o)
    IN  IF code = BYN
        THEN [rate |-> BYN_RATE, cache |-> cache, ts |-> ts, requests |-> 0]
        ELSE IF bank.rate # None
        THEN bank
        ELSE IF code \in DOMAIN fixed_rates
        THEN [bank EXCEPT !.rate = fixed_rates[code]]
        ELSE [bank EXCEPT !.rate = None]

\* Variant: the fallback table is consulted before the bank's cache.
get_exchange_rate_table_first(currency_code, cache, ts, t, o) ==
    LET code == upper(currency_code)
        bank == _get_belarusbank_rate(code, cache, ts, t, o)
    IN  IF code = BYN
        THEN [rate |-> BYN_RATE, cache |-> cache, ts |-> ts, requests |-> 0]
        ELSE IF code \in DOMAIN fixed_rates
        THEN [bank EXCEPT !.rate = fixed_rates[code]]
        ELSE bank

\* Variant: without the fixed table; a code the bank has no rate for is
\* left without a rate.
get_exchange_rate_no_table(currency_code, cache, ts, t, o) ==
    LET code == upper(currency_code)
        bank == _get_belarusbank_rate(code, cache, ts, t, o)
    IN  IF code = BYN
        THEN [rate |-> BYN_RATE, cache |-> cache, ts |-> ts, requests |-> 0]
        ELSE bank

\* get_exchange_rate
get_exchange_rate(currency_code, cache, ts, t, o) ==
    LET code == upper(currency_code)
        bank == _get_belarusbank_rate(code, cache, ts, t, o)
    IN  IF code = BYN
        THEN [rate |-> BYN_RATE, cache |-> cache, ts |-> ts, requests |-> 0]
        ELSE IF bank.rate # None
        THEN bank
        ELSE IF code \in DOMAIN fixed_rates
        THEN [bank EXCEPT !.rate = fixed_rates[code]]
        ELSE [bank EXCEPT !.rate = None]

\* -------------------------------------------------------- NotionUpdater

\* Seconds: UPDATE_FREQUENCY hours between two cycles (the default of the
\* environment variable), and the pause after a cycle that raised.
UPDATE_FREQUENCY == 2
ErrorCooldown == 300

\* Numeric identifier of the ID_money field -> code.
CURRENCY_CODE_MAPPING ==
    (145 :> USD) @@ (292 :> EUR) @@ (298 :> RUB) @@ (1 :> BYN) @@
    (293 :> GBP) @@ (304 :> CNY)

\* The labels the select and rich_text branches accept.
KnownLabels == {USD, EUR, RUB, BYN, GBP, CNY}

\* One element of the "results" of the document store.
\*   shape   "notmap": not a JSON object; "noid": an object without "id";
\*           "page": an object with an "id"
\*   props   "properties" is "absent", "null" or a "dict"
\*   ftype   the "type" of properties["ID_money"], "missing" when the
\*           property is absent or empty
\*   number  its "number" in tenths (145.9 is 1459), None for null
\*   text    the "name" of its "select", or the "plain_text" of its first
\*           "rich_text" run; NoCode when there is none
Page(shape, props, ftype, number, text) ==
    [shape |-> shape, props |-> props, ftype |-> ftype,
     number |-> number, text |-> text]

NumberPage(n) == Page("page", "dict", "number", n, NoCode)
SelectPage(name) == Page("page", "dict", "select", None, name)

\* The records the document store may return.
PageShapes ==
    { Page("notmap", "absent", "missing", None, NoCode),
      Page("noid", "dict", "number", 1450, NoCode),
      Page("page", "absent", "missing", None, NoCode),
      Page("page", "null", "missing", None, NoCode),
      NumberPage(1450), NumberPage(2920), NumberPage(10), NumberPage(9990),
      SelectPage(<<"u","s","d"," ">>) }

\* All lists of at most n records.
PageLists(n) == UNION { [1..k -> PageShapes] : k \in 0..n }

\* int(x) of a non-negative number given in tenths.
int(tenths) == tenths \div 10

\* str.strip()
strip(s) ==
    LET solid == { i \in 1..Len(s) : s[i] # " " }
    IN  IF solid = {}
        THEN <<>>
        ELSE SubSeq(s, CHOOSE i \in solid : \A j \in solid : i <= j,
                       CHOOSE i \in solid : \A j \in solid : j <= i)

\* The ID_money properties extract_currency_code is tried on: every mapped
\* number, an unknown and a null one; a number together with a label, under
\* each "type"; labels inside and outside the accepted six, in either case,
\* padded, too short, empty; a type the code has no branch for.
ExtractShapes ==
    { NumberPage(n) : n \in {10, 1450, 1459, 2920, 2930, 2980, 3040, 9990, None} }
    \cup { Page("page", "dict", t, n, EUR) :
              t \in {"number", "select", "rich_text", "formula"},
              n \in {1450, 9990, None} }
    \cup { Page("page", "dict", t, None, name) :
              t \in {"select", "rich_text"},
              name \in { <<"u","s","d"," ">>, <<"b","y","n">>, <<"G","b","P">>,
                         PLN, <<"p","l","n">>, UAH, <<"u","s">>, NoCode } }

\* Variant: a label that reads as a code is used whatever the "type" says.
extract_currency_code_label_first(page) ==
    CASE page.props = "null" -> NoCode
      [] page.props = "absent" \/ page.ftype = "missing" -> NoCode
      [] page.ftype \in {"number", "select", "rich_text"} ->
            IF page.text # NoCode /\ upper(strip(page.text)) \in KnownLabels
            THEN upper(strip(page.text))
            ELSE IF page.number # None
                    /\ int(page.number) \in DOMAIN CURRENCY_CODE_MAPPING
            THEN CURRENCY_CODE_MAPPING[int(page.number)]
            ELSE NoCode
      [] OTHER -> NoCode

\* Variant: an unknown numeric identifier is taken for USD instead of None.
extract_currency_code_guess(page) ==
    CASE page.props = "null" -> NoCode
      [] page.props = "absent" \/ page.ftype = "missing" -> NoCode
      [] page.ftype = "number" ->
            IF page.number = None THEN NoCode
            ELSE IF int(page.number) \in DOMAIN CURRENCY_CODE_MAPPING
            THEN CURRENCY_CODE_MAPPING[int(page.number)]
            ELSE USD
      [] page.ftype \in {"select", "rich_text"} ->
            IF page.text # NoCode /\ upper(strip(page.text)) \in KnownLabels
            THEN upper(strip(page.text))
            ELSE NoCode
      [] OTHER -> NoCode

\* extract_currency_code: the code, or NoCode for None.
extract_currency_code(page) ==
    CASE page.props = "null" ->
            \* None.get raises; line 273 returns None
            NoCode
      [] page.props = "absent" \/ page.ftype = "missing" ->
            NoCode
      [] page.ftype = "number" ->
            IF page.number # None /\ int(page.number) \in DOMAIN CURRENCY_CODE_MAPPING
            THEN CURRENCY_CODE_MAPPING[int(page.number)]
            ELSE NoCode
      [] page.ftype \in {"select", "rich_text"} ->
            IF page.text # NoCode /\ upper(strip(page.text)) \in KnownLabels
            THEN upper(strip(page.text))
            ELSE NoCode
      [] OTHER -> NoCode

\* What one PATCH of a record comes to: it succeeds, raises a
\* RequestException, or raises something else.
WriteOutcomes == {"ok", "reqerr", "other"}

\* update_page_rate: True exactly when the request succeeded.
update_page_rate(w) == w = "ok"

\* Variant: the handler of line 348 logs the exception without counting it.
ProcessPage_exception_uncounted(page, cache, ts, t, o, w) ==
    LET code == extract_currency_code(page)
        r == get_exchange_rate(code, cache, ts, t, o)
        quiet == [code |-> NoCode, rate |-> None, cache |-> cache, ts |-> ts,
                  lookups |-> 0, requests |-> 0, answer |-> <<>>,
                  writes |-> 0, written |-> None]
        looked == [quiet EXCEPT !.code = code, !.rate = r.rate, !.cache = r.cache,
                                !.ts = r.ts, !.lookups = 1, !.requests = r.requests,
                                !.answer = IF r.requests = 1 THEN o.data ELSE <<>>]
    IN  CASE page.shape = "notmap" ->
                [kind |-> "raised"] @@ quiet
          [] page.shape = "noid" ->
                [kind |-> "ignored"] @@ quiet
          [] code = NoCode ->
                [kind |-> "skipped"] @@ quiet
          [] r.rate = None ->
                [kind |-> "unpriced"] @@ looked
          [] update_page_rate(w) ->
                [kind |-> "updated"] @@
                [looked EXCEPT !.writes = 1, !.written = r.rate]
          [] OTHER ->
                [kind |-> "unwritten"] @@ [looked EXCEPT !.writes = 1]

\* Variant: a failed write-back escapes the loop instead of being counted.
ProcessPage_failed_write_raises(page, cache, ts, t, o, w) ==
    LET code == extract_currency_code(page)
        r == get_exchange_rate(code, cache, ts, t, o)
        quiet == [code |-> NoCode, rate |-> None, cache |-> cache, ts |-> ts,
                  lookups |-> 0, requests |-> 0, answer |-> <<>>,
                  writes |-> 0, written |-> None]
        looked == [quiet EXCEPT !.code = code, !.rate = r.rate, !.cache = r.cache,
                                !.ts = r.ts, !.lookups = 1, !.requests = r.requests,
                                !.answer = IF r.requests = 1 THEN o.data ELSE <<>>]
    IN  CASE page.shape = "notmap" ->
                \* page["id"] raises TypeError, and page.get in the handler
                \* raises AttributeError out of process_database
                [kind |-> "raised"] @@ quiet
          [] page.shape = "noid" ->
                \* page["id"] raises KeyError
                [kind |-> "failed"] @@ quiet
          [] code = NoCode ->
                [kind |-> "skipped"] @@ quiet
          [] r.rate = None ->
                [kind |-> "unpriced"] @@ looked
          [] update_page_rate(w) ->
                [kind |-> "updated"] @@
                [looked EXCEPT !.writes = 1, !.written = r.rate]
          [] OTHER ->
                [kind |-> "raised"] @@ [looked EXCEPT !.writes = 1]

\* One pass of the body of the loop of process_database (lines 318-350)
\* over `page`: what became of the record, the parser's state afterwards
\* and the requests that were sent (`answer`: the object the bank answered
\* with, empty when it sent none).
\*   "raised"   the handler of line 348 itself raised: the call is over
\*   "failed"   an exception was caught and counted (line 350)
\*   "skipped"  no currency code (line 327)
\*   "unpriced" no rate (line 335)
\*   "updated"  written (line 340)
\*   "unwritten" the write-back failed (line 343)
ProcessPage(page, cache, ts, t, o, w) ==
    LET code == extract_currency_code(page)
        r == get_exchange_rate(code, cache, ts, t, o)
        quiet == [code |-> NoCode, rate |-> None, cache |-> cache, ts |-> ts,
                  lookups |-> 0, requests |-> 0, answer |-> <<>>,
                  writes |-> 0, written |-> None]
        looked == [quiet EXCEPT !.code = code, !.rate = r.rate, !.cache = r.cache,
                                !.ts = r.ts, !.lookups = 1, !.requests = r.requests,
                                !.answer = IF r.requests = 1 THEN o.data ELSE <<>>]
    IN  CASE page.shape = "notmap" ->
                \* page["id"] raises TypeError, and page.get in the handler
                \* raises AttributeError out of process_database
                [kind |-> "raised"] @@ quiet
          [] page.shape = "noid" ->
                \* page["id"] raises KeyError
                [kind |-> "failed"] @@ quiet
          [] code = NoCode ->
                [kind |-> "skipped"] @@ quiet
          [] r.rate = None ->
                [kind |-> "unpriced"] @@ looked
          [] update_page_rate(w) ->
                [kind |-> "updated"] @@
                [looked EXCEPT !.writes = 1, !.written = r.rate]
          [] OTHER ->
                [kind |-> "unwritten"] @@ [looked EXCEPT !.writes = 1]

\* ------------------------------------------------------------ the state

\* What is remembered of a call of the parser: the argument, the clock, the
\* cache before it, the answer of the bank if one was asked for, the result.
Observation(op, code, t, cache, ts, o, r) ==
    [op |-> op, code |-> code, t |-> t,
     cache_before |-> cache, ts_before |-> ts,
     outcome |-> IF r.requests = 0 THEN "none" ELSE o.kind,
     answer |-> IF r.requests = 0 THEN <<>> ELSE o.data,
     requests |-> r.requests, rate |-> r.rate,
     cache_after |-> r.cache, ts_after |-> r.ts]

NoObservation ==
    [op |-> "none", code |-> NoCode, t |-> 0,
     cache_before |-> <<>>, ts_before |-> None,
     outcome |-> "none", answer |-> <<>>, requests |-> 0, rate |-> None,
     cache_after |-> <<>>, ts_after |-> None]

parserVars == <<rates_cache, cache_timestamp, now, ticks, last, hist>>
readerVars == <<all_pages, has_more, next_cursor, fetched>>
updaterVars == <<pc, cycles, readerVars, pages, idx, updated_count,
                 error_count, skipped_count, fresh_at_start, log>>
vars == <<parserVars, updaterVars>>

\* The state when main() is entered (line 418): the start-up checks are
\* still to run, no cycle has begun; a CurrencyParser starts with an empty
\* cache and no timestamp (lines 52-55).
Init ==
    /\ rates_cache = <<>>
    /\ cache_timestamp = None
    /\ now = T0
    /\ ticks = 0
    /\ last = NoObservation
    /\ hist = <<>>
    /\ pc = "test_notion"
    /\ cycles = 0
    /\ all_pages = <<>>
    /\ has_more = FALSE
    /\ next_cursor = NoCursor
    /\ fetched = <<>>
    /\ pages = <<>>
    /\ idx = 1
    /\ updated_count = 0
    /\ error_count = 0
    /\ skipped_count = 0
    /\ fresh_at_start = FALSE
    /\ log = <<>>

\* The amounts by which the clock is seen to advance between two steps: a
\* second, or a whole validity period.
TickSteps == {1, TTL}

\* Time passes.
Tick ==
    /\ ticks < MaxTicks
    /\ \E d \in TickSteps : now' = now + d
    /\ ticks' = ticks + 1
    /\ UNCHANGED <<rates_cache, cache_timestamp, last, hist, updaterVars>>

\* ---------------------------------------------- the parser, called directly

\* The arguments the driver passes: codes in either letter case, a code the
\* bank knows but the fallback table does not, and an unknown code.
LookupCodes ==
    { USD, EUR, RUB, BYN, PLN,
      <<"u","s","d">>, <<"b","y","n">>, <<"B","y","n">>, <<"X","X","X">> }

\* A caller asks get_exchange_rate(code).
CallGetExchangeRate ==
    \E code \in LookupCodes, o \in ProviderOutcomes :
        \E r \in {get_exchange_rate(code, rates_cache, cache_timestamp, now, o)},
           bank \in {upper(code) # BYN} :
            /\ Len(hist) < MaxLookups
            /\ rates_cache' = r.cache
            /\ cache_timestamp' = r.ts
            /\ last' = Observation("get_exchange_rate", code, now,
                                   rates_cache, cache_timestamp, o, r)
            /\ hist' = IF bank
                       THEN Append(hist, [t |-> now, requests |-> r.requests,
                                          refreshed |-> r.ts = now /\ r.requests = 1])
                       ELSE hist
            /\ UNCHANGED <<now, ticks, updaterVars>>

ParserNext == Tick \/ CallGetExchangeRate

ParserSpec == Init /\ [][ParserNext]_vars

\* --------------------------------- extract_currency_code, called directly

\* A caller holds a list of records to read the currency of.
ExtractInit ==
    /\ rates_cache = <<>>
    /\ cache_timestamp = None
    /\ now = T0
    /\ ticks = 0
    /\ last = NoObservation
    /\ hist = <<>>
    /\ pc = "extract"
    /\ cycles = 0
    /\ all_pages = <<>>
    /\ has_more = FALSE
    /\ next_cursor = NoCursor
    /\ fetched = <<>>
    /\ pages \in UNION { [1..k -> ExtractShapes] : k \in 1..MaxRecords }
    /\ idx = 1
    /\ updated_count = 0
    /\ error_count = 0
    /\ skipped_count = 0
    /\ fresh_at_start = FALSE
    /\ log = <<>>

\* The caller asks extract_currency_code(properties) for the next record.
CallExtractCurrencyCode ==
    /\ pc = "extract"
    /\ idx <= Len(pages)
    /\ log' = Append(log, [page |-> pages[idx],
                           code |-> extract_currency_code(pages[idx])])
    /\ idx' = idx + 1
    /\ UNCHANGED <<parserVars, pc, cycles, readerVars, pages, updated_count,
                   error_count, skipped_count, fresh_at_start>>

ExtractSpec == ExtractInit /\ [][CallExtractCurrencyCode]_vars

\* ------------------------------------------------------- the program: main()

\* How a start-up check can end: it passes, a request raises a
\* RequestException, or something else goes wrong (for the bank check: a
\* status other than 200, an empty or non-list body, an exception).
CheckOutcomes == {"ok", "reqerr", "other"}

\* test_notion_connection: True when both requests pass, False on any
\* exception (lines 357-384).
test_notion_connection(c) == c = "ok"

\* test_bank_api: True for a 200 answer holding a non-empty list, False
\* otherwise (lines 386-416).
test_bank_api(c) == c = "ok"

\* main() runs the document-store check (line 429).
TestNotion ==
    /\ pc = "test_notion"
    /\ \E c \in CheckOutcomes :
          pc' = IF test_notion_connection(c) THEN "test_bank"
                ELSE "notion_failed"
    /\ UNCHANGED <<parserVars, cycles, readerVars, pages, idx, updated_count,
                   error_count, skipped_count, fresh_at_start, log>>

\* Variant: a failed document-store check is only logged, like a failed
\* bank check.
Halt_only_warns ==
    /\ pc = "notion_failed"
    /\ pc' = "test_bank"
    /\ UNCHANGED <<parserVars, cycles, readerVars, pages, idx, updated_count,
                   error_count, skipped_count, fresh_at_start, log>>

\* The document-store check failed: main() logs and returns (lines 430-431).
Halt ==
    /\ pc = "notion_failed"
    /\ pc' = "halted"
    /\ UNCHANGED <<parserVars, cycles, readerVars, pages, idx, updated_count,
                   error_count, skipped_count, fresh_at_start, log>>

\* main() runs the bank check; a failure is only logged (lines 433-435).
TestBank ==
    /\ pc = "test_bank"
    /\ \E c \in CheckOutcomes :
          pc' = IF test_bank_api(c) THEN "bank_ok" ELSE "bank_failed"
    /\ UNCHANGED <<parserVars, cycles, readerVars, pages, idx, updated_count,
                   error_count, skipped_count, fresh_at_start, log>>

\* updater = NotionUpdater() (line 437); the loop of line 439 is entered.
MakeUpdater ==
    /\ pc \in {"bank_ok", "bank_failed"}
    /\ pc' = "idle"
    /\ rates_cache' = <<>>
    /\ cache_timestamp' = None
    /\ UNCHANGED <<now, ticks, last, hist, cycles, readerVars, pages, idx,
                   updated_count, error_count, skipped_count, fresh_at_start,
                   log>>

\* The cursors the store hands out.
Cursors == {NoCursor, <<"c","1">>, <<"c","2">>}

\* What a page request can bring: a body with results, has_more and
\* next_cursor, a RequestException, or another exception (a body that is
\* not JSON or not a mapping).
QueryOutcome(kind, results, more, cursor) ==
    [kind |-> kind, results |-> results, has_more |-> more,
     next_cursor |-> cursor]

\* The answers to a page request when at most `room` more records are followed.
QueryOutcomes(room) ==
    { QueryOutcome("ok", r, m, c) :
        r \in PageLists(room), m \in BOOLEAN, c \in Cursors }
    \cup { QueryOutcome("reqerr", <<>>, FALSE, NoCursor),
           QueryOutcome("other", <<>>, FALSE, NoCursor) }

\* The start_cursor a request carries: the cursor kept from the previous
\* answer, when there is one (lines 207-208).
start_cursor_dropped(cursor) == NoCursor

start_cursor(cursor) == cursor

\* all_pages.extend(results), line 214.
extend_replaces(all, results) == results

extend(all, results) == all \o results

\* What get_database_entries returns: the records read, or [] when a
\* request failed (lines 219, 221-228).
get_database_entries_partial(ok, entries) == entries

get_database_entries(ok, entries) == IF ok THEN entries ELSE <<>>

\* process_database is entered (line 443) and calls get_database_entries,
\* which starts with no record, has_more True and no cursor (lines 198-200).
BeginSync ==
    /\ pc = "idle"
    /\ cycles < MaxCycles
    /\ cycles' = cycles + 1
    /\ pc' = "fetch"
    /\ all_pages' = <<>>
    /\ has_more' = TRUE
    /\ next_cursor' = NoCursor
    /\ fetched' = <<>>
    /\ pages' = <<>>
    /\ idx' = 1
    /\ updated_count' = 0
    /\ error_count' = 0
    /\ skipped_count' = 0
    /\ fresh_at_start' = ~_should_refresh_cache(cache_timestamp, now)
    /\ log' = <<>>
    /\ UNCHANGED parserVars

\* One turn of the while loop of get_database_entries (lines 202-216): a
\* page is requested; its records are appended and has_more and next_cursor
\* are taken from the answer.  When the request fails get_database_entries
\* returns [] and process_database returns at once (lines 221-228, 310-311).
QueryPage ==
    /\ pc = "fetch"
    /\ has_more
    /\ Len(fetched) < MaxFetches
    /\ \E q \in QueryOutcomes(MaxRecords - Len(all_pages)) :
          IF q.kind = "ok"
          THEN /\ all_pages' = extend(all_pages, q.results)
               /\ has_more' = q.has_more
               /\ next_cursor' = q.next_cursor
               /\ fetched' = Append(fetched,
                                    [sent |-> start_cursor(next_cursor),
                                     results |-> q.results,
                                     has_more |-> q.has_more,
                                     next_cursor |-> q.next_cursor])
               /\ UNCHANGED <<pc, pages>>
          ELSE /\ pages' = get_database_entries(FALSE, all_pages)
               /\ pc' = IF pages' = <<>> THEN "sleep" ELSE "loop"
               /\ next_cursor' = NoCursor
               /\ fetched' = <<>>
               /\ UNCHANGED <<all_pages, has_more>>
    /\ UNCHANGED <<parserVars, cycles, idx, updated_count, error_count,
                   skipped_count, fresh_at_start, log>>

\* The while loop ends with has_more false: get_database_entries returns
\* all_pages (line 219); with no record process_database returns at once
\* (line 311), otherwise its loop over the records begins.
ReturnEntries ==
    /\ pc = "fetch"
    /\ ~has_more
    /\ pages' = get_database_entries(TRUE, all_pages)
    /\ pc' = IF pages' = <<>> THEN "sleep" ELSE "loop"
    /\ next_cursor' = NoCursor
    /\ fetched' = <<>>
    /\ UNCHANGED <<parserVars, cycles, all_pages, has_more, idx,
                   updated_count, error_count, skipped_count, fresh_at_start,
                   log>>

\* One iteration of the loop of process_database; after the last record the
\* call returns updated_count and main() goes to sleep (lines 352-356, 456).
\* A record that makes the handler raise ends the call in main()'s handler
\* (line 461).
ProcessRecord ==
    /\ pc = "loop"
    /\ idx <= Len(pages)
    /\ \E o \in ProviderOutcomes, w \in WriteOutcomes :
          \E p \in {ProcessPage(pages[idx], rates_cache, cache_timestamp, now, o, w)} :
              /\ rates_cache' = p.cache
              /\ cache_timestamp' = p.ts
              /\ log' = Append(log, [kind |-> p.kind, code |-> p.code,
                                     lookups |-> p.lookups, requests |-> p.requests,
                                     answer |-> p.answer,
                                     writes |-> p.writes, written |-> p.written])
              /\ updated_count' = updated_count + (IF p.kind = "updated" THEN 1 ELSE 0)
              /\ skipped_count' = skipped_count + (IF p.kind = "skipped" THEN 1 ELSE 0)
              /\ error_count' =
                    error_count +
                    (IF p.kind \in {"failed", "unpriced", "unwritten"} THEN 1 ELSE 0)
              /\ pc' = IF p.kind = "raised" THEN "cooldown"
                       ELSE IF idx = Len(pages) THEN "sleep"
                       ELSE "loop"
    /\ idx' = idx + 1
    /\ UNCHANGED <<now, ticks, last, hist, cycles, readerVars, pages,
                   fresh_at_start>>

\* Time passes while process_database runs (requests, the pause of line 346).
Elapse == pc = "loop" /\ Tick

\* The locals of process_database are gone once main() has looked at what it
\* returned.
LocalsDropped ==
    /\ all_pages' = <<>>
    /\ has_more' = FALSE
    /\ next_cursor' = NoCursor
    /\ fetched' = <<>>
    /\ pages' = <<>>
    /\ idx' = 1
    /\ updated_count' = 0
    /\ error_count' = 0
    /\ skipped_count' = 0
    /\ fresh_at_start' = FALSE
    /\ log' = <<>>

\* time.sleep(wait_time), line 456.
Sleep ==
    /\ pc = "sleep"
    /\ now' = now + UPDATE_FREQUENCY * SecondsPerHour
    /\ pc' = "idle"
    /\ LocalsDropped
    /\ UNCHANGED <<rates_cache, cache_timestamp, ticks, last, hist, cycles>>

\* time.sleep(300), line 466.
Cooldown ==
    /\ pc = "cooldown"
    /\ now' = now + ErrorCooldown
    /\ pc' = "idle"
    /\ LocalsDropped
    /\ UNCHANGED <<rates_cache, cache_timestamp, ticks, last, hist, cycles>>

\* A KeyboardInterrupt arrives once the loop of line 439 runs.  Raised in
\* process_database or in the sleep of line 456 it is inside the try and
\* the handler of line 458 breaks out of the loop; raised in the sleep of
\* line 466 it is inside the handler of line 461, which no clause of the
\* same try covers, and it leaves main() as an exception.
Interrupt ==
    /\ pc \in {"fetch", "loop", "sleep", "cooldown"}
    /\ pc' = IF pc = "cooldown" THEN "crashed" ELSE "stopped"
    /\ LocalsDropped
    /\ UNCHANGED <<parserVars, cycles>>

Next ==
    \/ TestNotion \/ Halt \/ TestBank \/ MakeUpdater
    \/ BeginSync \/ QueryPage \/ ReturnEntries
    \/ ProcessRecord \/ Elapse
    \/ Sleep \/ Cooldown \/ Interrupt

Spec == Init /\ [][Next]_vars

\* ------------------------------------------------------------- properties

\* The call of process_database has returned to main() (with a count, or
\* with None when there was no record).
Returned == pc = "sleep"
\* The call of process_database raised into the loop of main().
Raised == pc = "cooldown"
\* The call is over, one way or the other; its locals are still in view.
CallOver == Returned \/ Raised

\* The requests sent to the bank by the current call of process_database.
RequestsOfCall == Cardinality({ i \in DOMAIN log : log[i].requests = 1 })

\* A record whose ID_money is a number mapped to a currency the bank quotes.
IsMappedNumber(page) ==
    /\ page.shape = "page" /\ page.props = "dict" /\ page.ftype = "number"
    /\ page.number # None
    /\ int(page.number) \in DOMAIN CURRENCY_CODE_MAPPING
    /\ CURRENCY_CODE_MAPPING[int(page.number)] \in DOMAIN bank_field_mapping

\* A record whose ID_money is a number that CURRENCY_CODE_MAPPING lacks.
IsUnknownNumber(page) ==
    /\ page.shape = "page" /\ page.props = "dict" /\ page.ftype = "number"
    /\ page.number # None
    /\ int(page.number) \notin DOMAIN CURRENCY_CODE_MAPPING

\* The bank's answer `data` carries a usable rate for `code`.
Quotes(data, code) ==
    /\ code \in DOMAIN bank_field_mapping
    /\ bank_field_mapping[code] \in DOMAIN data
    /\ Truthy(data[bank_field_mapping[code]])
    /\ FloatOk(data[bank_field_mapping[code]])

\* The refresh did not complete: the request raised, the body was rejected,
\* or parsing raised.
RefreshFailed(kind) ==
    kind \in {"timeout", "neterr", "badjson", "notlist", "scalarlist"}

\* The last call was a get_exchange_rate for a currency other than BYN.
LastForeign == last.op = "get_exchange_rate" /\ upper(last.code) # BYN

\* A rate has at most four decimals.
FourDecimals(rate) == rate % 10 = 0

\* C1: one call of process_database over records that each reference a
\* foreign currency sends as many requests to the bank as a call over one
\* such record: none if the cache was fresh when the call began, one if not.
C1_BatchingInvariant ==
    (Returned /\ pages # <<>> /\ \A i \in DOMAIN log : log[i].lookups = 1 /\ log[i].code # BYN)
        => RequestsOfCall = IF fresh_at_start THEN 0 ELSE 1

\* C2: a refresh that fails leaves rates_cache and cache_timestamp as they
\* were before the call.
C2_StaleCacheOnFailure ==
    (LastForeign /\ last.requests = 1 /\ RefreshFailed(last.outcome))
        => /\ last.cache_after = last.cache_before
           /\ last.ts_after = last.ts_before

\* C3, second half: a lookup sends one request when the cache is older
\* than the validity period, and none when it is not.
LookupFollowsAge ==
    (LastForeign /\ last.ts_before # None)
        => last.requests = IF last.t - last.ts_before > TTL THEN 1 ELSE 0

\* C3 as stated: any two lookups at most one validity period apart send at
\* most one request together, and each lookup follows the age of the cache.
C3_FreshnessOriginal ==
    /\ \A i, j \in DOMAIN hist :
          (i < j /\ hist[j].t - hist[i].t <= TTL)
              => hist[i].requests + hist[j].requests <= 1
    /\ LookupFollowsAge

\* C3 amended: a lookup sends exactly one request when no refresh has
\* succeeded yet or the cache is older than the validity period, and none
\* otherwise; two lookups at most one validity period apart send at most one
\* request together unless the refresh of the earlier one failed.
C3_Freshness ==
    /\ \A i, j \in DOMAIN hist :
          (/\ i < j
           /\ hist[j].t - hist[i].t <= TTL
           /\ (hist[i].requests = 0 \/ hist[i].refreshed))
              => hist[i].requests + hist[j].requests <= 1
    /\ LookupFollowsAge
    /\ (LastForeign /\ last.ts_before = None) => last.requests = 1

\* Two lookups a whole validity period apart, the first of which refreshed
\* the cache and the second of which sent nothing.
C3_Witness ==
    /\ Len(hist) >= 2
    /\ hist[1].requests = 1 /\ hist[1].refreshed
    /\ hist[2].t - hist[1].t = TTL
    /\ hist[2].requests = 0

\* C4: for BYN in any letter case get_exchange_rate returns 1.0, sends no
\* request and leaves the cache and its timestamp as they were.
C4_LocalCurrencyIsOne ==
    (last.op = "get_exchange_rate" /\ upper(last.code) = BYN)
        => /\ last.rate = BYN_RATE
           /\ last.requests = 0
           /\ last.cache_after = last.cache_before
           /\ last.ts_after = last.ts_before
           /\ rates_cache = last.cache_before
           /\ cache_timestamp = last.ts_before

\* "byn" asked for while the cache holds rates and has expired.
C4_Witness ==
    /\ last.op = "get_exchange_rate"
    /\ last.code = <<"b","y","n">>
    /\ last.rate = BYN_RATE
    /\ last.cache_before # <<>>
    /\ last.ts_before # None
    /\ last.t - last.ts_before > TTL

\* The first source with a value for the code decides: the cache as the
\* lookup leaves it, then the fallback table, else None.
FirstSourceWins ==
    LastForeign =>
        LET code == upper(last.code)
        IN  last.rate = IF code \in DOMAIN last.cache_after
                        THEN last.cache_after[code]
                        ELSE IF code \in DOMAIN fixed_rates
                        THEN fixed_rates[code]
                        ELSE None

\* C5 as stated: when the request to the bank times out and the fallback
\* table has the code, the result is the table's value; and the first source
\* with a value decides.
C5_FallbackOriginal ==
    /\ (LastForeign /\ last.outcome = "timeout"
            /\ upper(last.code) \in DOMAIN fixed_rates)
          => last.rate = fixed_rates[upper(last.code)]
    /\ FirstSourceWins

\* C5 amended: when the request to the bank times out the cache is left as
\* it was; the result is the cached (stale) value when the cache has the
\* code, and the table's value when the cache has none and the table has
\* the code; and the first source with a value decides.
C5_Fallback ==
    /\ (LastForeign /\ last.outcome = "timeout")
          => /\ last.cache_after = last.cache_before
             /\ upper(last.code) \in DOMAIN last.cache_before
                    => last.rate = last.cache_before[upper(last.code)]
             /\ (upper(last.code) \notin DOMAIN last.cache_before
                    /\ upper(last.code) \in DOMAIN fixed_rates)
                    => last.rate = fixed_rates[upper(last.code)]
    /\ FirstSourceWins

\* The request timed out, the cache had no USD, the table's 2.9 came back.
C5_Witness ==
    /\ LastForeign
    /\ last.outcome = "timeout"
    /\ upper(last.code) = USD
    /\ USD \notin DOMAIN last.cache_before
    /\ last.rate = fixed_rates[USD]

\* C6: from an empty cache, with every record a mapped numeric identifier,
\* every answer of the bank quoting every referenced currency and every
\* write succeeding, each record is updated with the bank's rate of its
\* currency, nothing is skipped or counted as an error, and the bank
\* received exactly one request.
C6_Scenario ==
    (/\ Returned /\ pages # <<>>
     /\ cycles = 1
     /\ \A i \in DOMAIN pages : IsMappedNumber(pages[i])
     /\ \A i \in DOMAIN log :
           log[i].requests = 1 =>
               \A j \in DOMAIN pages :
                   Quotes(log[i].answer, CURRENCY_CODE_MAPPING[int(pages[j].number)])
     /\ \A i \in DOMAIN log : log[i].writes = 1 => log[i].kind = "updated")
        => /\ \A i \in DOMAIN log :
                 /\ log[i].kind = "updated"
                 /\ \E k \in 1..i :
                       /\ log[k].requests = 1
                       /\ log[i].written =
                             Float(log[k].answer[bank_field_mapping[log[i].code]])
           /\ error_count = 0
           /\ skipped_count = 0
           /\ updated_count = Len(pages)
           /\ RequestsOfCall = 1

\* C7: a record whose numeric identifier is unknown yields no code, is
\* counted as skipped once, and causes no lookup, request or write-back.
C7_UnknownNumberSkipped ==
    /\ \A i \in DOMAIN log :
          IsUnknownNumber(pages[i])
              => /\ extract_currency_code(pages[i]) = NoCode
                 /\ log[i].kind = "skipped"
                 /\ log[i].lookups = 0
                 /\ log[i].requests = 0
                 /\ log[i].writes = 0
    /\ skipped_count = Cardinality({ i \in DOMAIN log : log[i].kind = "skipped" })

\* A call that returned after visiting a record with identifier 999.
C7_Witness ==
    /\ Returned
    /\ \E i \in DOMAIN log :
          /\ pages[i] = NumberPage(9990)
          /\ log[i].kind = "skipped"
    /\ skipped_count >= 1

\* C8: every cached rate and every rate written back has at most four
\* decimals.
C8_FourDecimalRates ==
    /\ \A c \in DOMAIN rates_cache : FourDecimals(rates_cache[c])
    /\ \A i \in DOMAIN log : log[i].written # None => FourDecimals(log[i].written)

\* C9: a record that was skipped, unpriced or not written does not end the
\* call: the loop goes on to the next record, and the call raises only on a
\* record that is no mapping; no record is sent more than one write-back; a
\* failed write-back is one error.
C9_FailureDoesNotAbort ==
    /\ pc \in {"loop", "sleep", "cooldown"} =>
          /\ Len(log) = idx - 1
          /\ Len(log) <= Len(pages)
    /\ pc = "loop" => idx <= Len(pages)
    /\ Returned => Len(log) = Len(pages)
    /\ Raised => pages[Len(log)].shape = "notmap"
    /\ \A i \in DOMAIN log :
          /\ log[i].writes <= 1
          /\ log[i].kind \in {"skipped", "unpriced"} => log[i].writes = 0
    /\ error_count =
          Cardinality({ i \in DOMAIN log :
                          log[i].kind \in {"failed", "unpriced", "unwritten"} })

\* A failed write-back on the first record, the second record written.
C9_Witness ==
    /\ Returned
    /\ Len(log) = 2
    /\ log[1].kind = "unwritten" /\ log[1].writes = 1
    /\ log[2].kind = "updated"
    /\ error_count = 1 /\ updated_count = 1

\* C10: process_database never raises into the loop of main().
C10_NeverRaises == ~Raised

\* A record of the extraction driver whose property is of one of the three
\* types the code reads, carries a number mapped to a code, and carries a
\* label that by itself reads as a code.
ReadsBothWays(page) ==
    /\ page.props = "dict"
    /\ page.ftype \in {"number", "select", "rich_text"}
    /\ page.number # None
    /\ int(page.number) \in DOMAIN CURRENCY_CODE_MAPPING
    /\ page.text # NoCode
    /\ upper(strip(page.text)) \in KnownLabels

ThreeLetters(text) ==
    /\ Len(text) = 3
    /\ \A k \in 1..3 : \E n \in DOMAIN LowerCase :
            text[k] = LowerCase[n] \/ text[k] = UpperCase[n]

\* C12: for a property of type select whose label is exactly three
\* letters, whichever they are, extract_currency_code returns the label in
\* upper case.
C12_ShortLabelUsed ==
    \A i \in DOMAIN log :
        ( /\ log[i].page.props = "dict"
          /\ log[i].page.ftype = "select"
          /\ ThreeLetters(log[i].page.text) )
        => log[i].code = upper(log[i].page.text)

\* The results of the answers in f, one after the other.
RECURSIVE ResultsOf(_)
ResultsOf(f) ==
    IF f = <<>> THEN <<>>
    ELSE ResultsOf(SubSeq(f, 1, Len(f) - 1)) \o f[Len(f)].results

\* C13: while get_database_entries reads, each request carries the cursor
\* of the answer before it (none for the first), another request follows
\* as long as the last answer said has_more and only then, and the records
\* held are the results of all answers in order; nothing is extracted,
\* looked up or written meanwhile, and the records process_database works
\* on are that whole concatenation, read up to an answer without has_more.
C13_Pagination ==
    /\ pc = "fetch" =>
          /\ all_pages = ResultsOf(fetched)
          /\ \A i \in DOMAIN fetched :
                fetched[i].sent = IF i = 1 THEN NoCursor
                                  ELSE fetched[i - 1].next_cursor
          /\ has_more = (fetched = <<>> \/ fetched[Len(fetched)].has_more)
          /\ next_cursor = IF fetched = <<>> THEN NoCursor
                           ELSE fetched[Len(fetched)].next_cursor
          /\ (has_more /\ Len(fetched) < MaxFetches) =>
                (ENABLED QueryPage /\ ~ENABLED ReturnEntries)
          /\ ~has_more => (ENABLED ReturnEntries /\ ~ENABLED QueryPage)
          /\ pages = <<>> /\ log = <<>> /\ idx = 1
          /\ updated_count = 0 /\ error_count = 0 /\ skipped_count = 0
    /\ (pc = "loop" \/ log # <<>>) =>
          (~has_more /\ pages = all_pages /\ pages # <<>>)

\* Two pages, each with a record, were read; the second request carried the
\* cursor of the first answer and the second answer ended the read.
C13_Witness ==
    /\ pc = "fetch"
    /\ Len(fetched) = 2
    /\ ~has_more
    /\ fetched[1].results # <<>>
    /\ fetched[2].results # <<>>
    /\ fetched[1].next_cursor # NoCursor
    /\ fetched[2].sent = fetched[1].next_cursor
    /\ all_pages = fetched[1].results \o fetched[2].results

\* main() has not reached its loop: no updater, no call of process_database.
BeforeLoop ==
    /\ cycles = 0
    /\ rates_cache = <<>> /\ cache_timestamp = None
    /\ all_pages = <<>> /\ fetched = <<>> /\ pages = <<>> /\ log = <<>>

\* C14: when the document-store check fails main() returns, with no updater
\* made and process_database never called, and nothing happens afterwards;
\* a failed bank check is followed by the making of the updater and the
\* loop.
C14_StartupFailureHalts ==
    /\ [][pc = "notion_failed" => pc' = "halted"]_vars
    /\ [](pc \in {"test_notion", "notion_failed", "halted"} => BeforeLoop)
    /\ [](pc = "halted" => ~ENABLED Next)
    /\ [](pc = "bank_failed" => ENABLED MakeUpdater)
    /\ [][pc = "bank_failed" => pc' = "idle"]_vars

\* main() has returned after a failed document-store check.
C14_Witness == pc = "halted" /\ BeforeLoop

\* C15: within one call of process_database, two records of the same
\* currency that were both written received the same rate.
C15_OneRatePerCurrency ==
    \A i, j \in DOMAIN log :
        ( /\ log[i].kind = "updated"
          /\ log[j].kind = "updated"
          /\ log[i].code = log[j].code )
        => log[i].written = log[j].written

\* C16: a KeyboardInterrupt that arrives once the loop runs, whether
\* during a call of process_database, the wait after it or the cooldown
\* after a call that raised, is caught by the loop of main(): it never
\* leaves main() as an exception, and once the loop has stopped no call of
\* process_database begins.
C16_InterruptCaught ==
    /\ pc # "crashed"
    /\ pc = "stopped" => ~ENABLED Next

\* The last call of the parser refreshed the cache from an object.
RefreshedFromObject ==
    /\ last.op = "get_exchange_rate"
    /\ last.requests = 1
    /\ last.outcome = "dictlist"

\* The recognised currencies whose field in the answer has one of the
\* given kinds of value.
CurrenciesWith(answer, kinds) ==
    { c \in DOMAIN bank_field_mapping :
        /\ bank_field_mapping[c] \in DOMAIN answer
        /\ answer[bank_field_mapping[c]].t \in kinds }

\* After a refresh from the answer, the cache holds exactly the currencies
\* of `kept`, each at the value of its field, and is stamped with the time
\* of the call.
CacheIsExactly(kept) ==
    /\ rates_cache = last.cache_after
    /\ cache_timestamp = last.ts_after
    /\ DOMAIN last.cache_after = kept
    /\ \A c \in kept :
          last.cache_after[c] = last.answer[bank_field_mapping[c]].v
    /\ last.ts_after = last.t

\* C17 as stated: after a successful refresh the cache holds exactly the
\* recognised currencies whose field is present and numeric, whatever it
\* held before, and the timestamp is the time of the refresh.
C17_WholesaleOriginal ==
    RefreshedFromObject =>
        CacheIsExactly(CurrenciesWith(last.answer, {"str", "num", "zero"}))

\* C17, amended: the currencies kept are those whose field is present,
\* numeric and truthy; a field holding the number 0 is left out like an
\* absent, empty or non-numeric one.
C17_WholesaleRefresh ==
    RefreshedFromObject =>
        CacheIsExactly(CurrenciesWith(last.answer, {"str", "num"}))

\* A refresh succeeded over a cache holding PLN with an answer that has no
\* PLN_in: PLN is gone.
C17_Witness ==
    /\ RefreshedFromObject
    /\ PLN \in DOMAIN last.cache_before
    /\ PLN \notin DOMAIN last.cache_after
    /\ USD \in DOMAIN last.cache_after
    /\ "PLN_in" \notin DOMAIN last.answer

\* How many of the records visited ended in one of the given ways.
Ended(kinds) == Cardinality({ i \in DOMAIN log : log[i].kind \in kinds })

\* C18: when process_database has returned after going over a non-empty
\* list, every record is counted in exactly one of the three counters (they
\* add up to the number of records) and updated_count is the number of
\* write-backs that succeeded.
C18_CounterPartition ==
    (Returned /\ pages # <<>>) =>
        /\ Len(log) = Len(pages)
        /\ updated_count + skipped_count + error_count = Len(pages)
        /\ updated_count =
              Cardinality({ i \in DOMAIN log :
                              log[i].writes = 1 /\ log[i].written # None })
        /\ updated_count = Ended({"updated"})
        /\ skipped_count = Ended({"skipped"})
        /\ error_count = Ended({"failed", "unpriced", "unwritten"})

\* A call returned after a record without "id" (counted as an error) and a
\* record that was written.
C18_Witness ==
    /\ Returned
    /\ Len(pages) = 2
    /\ log[1].kind = "failed"
    /\ log[2].kind = "updated"
    /\ updated_count = 1 /\ error_count = 1 /\ skipped_count = 0

\* Every code extract_currency_code returns for the properties tried.
ExtractableCodes ==
    { extract_currency_code(page) : page \in ExtractShapes \cup PageShapes }
    \ {NoCode}

\* C19: whatever the cache holds and whatever the bank answers,
\* get_exchange_rate has a rate for every code extract_currency_code can
\* return; so no record visited was left without a rate, and the records
\* counted as errors are those whose write-back failed or whose handling
\* raised.
C19_ExtractedCodesArePriced ==
    /\ pc = "idle" =>
          \A code \in ExtractableCodes, o \in ProviderOutcomes :
              get_exchange_rate(code, rates_cache, cache_timestamp, now, o).rate
                  # None
    /\ \A i \in DOMAIN log : log[i].kind # "unpriced"
    /\ error_count = Ended({"failed", "unwritten"})

\* A record was priced by the fixed table after the bank failed to answer
\* and the cache had nothing for its currency.
C19_Witness ==
    \E i \in DOMAIN log :
        /\ log[i].kind = "updated"
        /\ log[i].code = EUR
        /\ log[i].requests = 1
        /\ log[i].answer = <<>>
        /\ log[i].written = fixed_rates[EUR]

\* get_database_entries is over although another page was due: one of its
\* requests failed.
ReadFailed == pc # "fetch" /\ has_more

\* C20: when a page request fails, get_database_entries returns no record
\* at all, the records of the pages already read are dropped, and
\* process_database returns without a lookup or a write.
C20_AllOrNothing ==
    ReadFailed =>
        /\ pages = <<>>
        /\ Returned
        /\ log = <<>> /\ idx = 1
        /\ updated_count = 0 /\ error_count = 0 /\ skipped_count = 0
        /\ ~ENABLED ProcessRecord

\* A request failed after a page with records had been read; the call is
\* over with no record.
C20_Witness ==
    /\ ReadFailed
    /\ all_pages # <<>>
    /\ pages = <<>>
    /\ Returned

====
